---- MODULE Spec2Model ----
(***************************************************************************)
(* The request pipeline of the Grafana API client: newRequest, the legacy  *)
(* Client.request and the generic Request, each with its retry loop and    *)
(* its response decoding, run against a transport that may fail, answer,   *)
(* or fail while the response body is read.                                *)
(***************************************************************************)
EXTENDS Integers, Sequences, FiniteSets, TLC

\* Largest NumRetries a client of the model is configured with.
MaxRetries == 2

\* http.StatusInternalServerError, http.StatusTooManyRequests, and the
\* status from which a response is an error response.
StatusInternalServerError == 500
StatusTooManyRequests == 429
StatusErrorFloor == 400

\* Config.NumRetries is a plain int: New validates nothing.
NumRetriesValues == (-1)..MaxRetries

\* Statuses a response carries, and the status of the response that
\* http.Client.Do returns together with an error when the redirect policy
\* (CheckRedirect) rejects a redirect.
Statuses == {200, 404, 429, 500}
PolicyStatuses == {302}

----------------------------------------------------------------------------
(* Response bodies are sequences of JSON tokens:
     "{" "}" "[" "]"   structure
     "m"               the member "message":"not found"
     "n"               the literal null
     "w"               white space (a trailing newline)
     "x"               bytes that are not JSON                              *)
ResponseBodies ==
    { <<>>,
      <<"{", "m", "}">>,
      <<"{", "m", "}", "w">>,
      <<"[", "]">>,
      <<"x">> }

\* Request bodies are sequences of bytes.
RequestBytes == { <<"a", "b">> }

\* encoding/json skips insignificant white space.
StripWS(data) == SelectSeq(data, LAMBDA t : t # "w")

\* What encoding/json finds in data: "invalid" is a syntax error (the empty
\* input included: "unexpected end of JSON input").
JSONKind(data) ==
    LET t == StripWS(data)
    IN  IF t = <<"{", "}">> \/ t = <<"{", "m", "}">> THEN "object"
        ELSE IF t = <<"[", "]">> THEN "array"
        ELSE IF t = <<"n">> THEN "null"
        ELSE "invalid"

\* The members of the object in data.
Members(data) ==
    IF \E i \in 1..Len(data) : data[i] = "m"
    THEN { <<"message", "not found">> }
    ELSE {}

\* A decoded value: the Go value json.Unmarshal leaves in its target.
NilValue == [kind |-> "nil", kv |-> {}]
ZeroValue(shape) == IF shape = "map" THEN NilValue ELSE [kind |-> shape, kv |-> {}]

\* json.Unmarshal(data, target) for a target of shape "map"
\* (map[string]interface{}), "struct" or "slice": a syntax error on invalid
\* input; null leaves the target as it is; an object fills a map or a
\* struct, an array fills a slice, anything else is an UnmarshalTypeError.
Unmarshal(data, shape) ==
    LET k == JSONKind(data)
    IN  IF k = "invalid"
        THEN [err |-> "SyntaxError", value |-> ZeroValue(shape)]
        ELSE IF k = "null"
        THEN [err |-> "nil", value |-> ZeroValue(shape)]
        ELSE IF k = "object" /\ shape \in {"map", "struct"}
        THEN [err |-> "nil", value |-> [kind |-> shape, kv |-> Members(data)]]
        ELSE IF k = "array" /\ shape = "slice"
        THEN [err |-> "nil", value |-> [kind |-> shape, kv |-> {}]]
        ELSE [err |-> "UnmarshalTypeError", value |-> ZeroValue(shape)]

----------------------------------------------------------------------------
(* Errors, readers, requests, responses and the result of a call.          *)

\* An error value: its kind and the attempt (loop index) that produced it.
NoErr == [kind |-> "nil", at |-> -1]
MkErr(kind, at) == [kind |-> kind, at |-> at]

\* An io.Reader: its dynamic type and its unread bytes.  "nil" is the nil
\* interface; "Buffer" is *bytes.Buffer; "Tee" is io.TeeReader over the
\* caller's reader; "BytesReader" is *bytes.Reader.
NilReader == [kind |-> "nil", data |-> <<>>]
MkReader(kind, data) == [kind |-> kind, data |-> data]

\* A pending *http.Response: nil, or a status and the bytes its Body holds.
NilResp == [nil |-> TRUE, StatusCode |-> 0, Body |-> <<>>]
MkResp(status, b) == [nil |-> FALSE, StatusCode |-> status, Body |-> b]

\* A built *http.Request, as far as the transport sees its body.
NoReq == [hasBody |-> FALSE, body |-> <<>>]

\* What a call returned.
Running == [kind |-> "running", err |-> NoErr, status |-> 0, raw |-> <<>>,
            value |-> NilValue]
RetErr(e) == [Running EXCEPT !.kind = "err", !.err = e]
RetOK(v) == [Running EXCEPT !.kind = "ok", !.value = v]
RetPanic(what) == [Running EXCEPT !.kind = "panic", !.err = MkErr(what, -1)]
\* APIError{StatusCode, Body}
RetAPIError(status, v) ==
    [Running EXCEPT !.kind = "APIError", !.status = status, !.value = v]
\* fmt.Errorf with the status and the raw body in its text, wrapping e (%w)
\* when e is an error.
RetErrorf(status, raw, e) ==
    [Running EXCEPT !.kind = "Errorf", !.status = status, !.raw = raw, !.err = e]

Prefix(s, k) == SubSeq(s, 1, k)
Suffix(s, k) == SubSeq(s, k + 1, Len(s))

----------------------------------------------------------------------------
\* ---------------------------------------------------------------------------
\* Client, Config and the request builder (New, WithOrgID, newRequest).
\* A string is the sequence of its tokens: "/" is the separator, every other
\* token is one whole path segment, key, value or digit. Paths are well
\* formed: two segment tokens are never adjacent.

\* path.Clean: the segments of p that survive, left to right. Empty and "."
\* segments are skipped; ".." removes the segment before it, is dropped at
\* the root of a rooted path and is kept at the front of an unrooted one.
RECURSIVE CleanSegs(_, _, _)
CleanSegs(segs, rooted, out) ==
    IF segs = <<>> THEN out
    ELSE LET s == Head(segs)
             o == IF s = "." THEN out
                  ELSE IF s = ".."
                       THEN IF out # <<>> /\ out[Len(out)] # ".."
                            THEN SubSeq(out, 1, Len(out) - 1)
                            ELSE IF rooted THEN out ELSE Append(out, "..")
                       ELSE Append(out, s)
         IN  CleanSegs(Tail(segs), rooted, o)

\* The segments of out written with one separator between them.
RECURSIVE JoinSegs(_)
JoinSegs(out) ==
    IF out = <<>> THEN <<>>
    ELSE IF Len(out) = 1 THEN out
    ELSE <<Head(out), "/">> \o JoinSegs(Tail(out))

Rooted(p) == p # <<>> /\ p[1] = "/"

Segments(p) == SelectSeq(p, LAMBDA t : t # "/")

\* path.Clean(p).
Clean(p) ==
    IF p = <<>> THEN <<".">>
    ELSE LET out == CleanSegs(Segments(p), Rooted(p), <<>>)
         IN  IF Rooted(p) THEN <<"/">> \o JoinSegs(out)
             ELSE IF out = <<>> THEN <<".">> ELSE JoinSegs(out)

\* path.Join(a, b): the non-empty elements joined by "/" and cleaned; the
\* empty string when both are empty.
Join(a, b) ==
    IF a = <<>> /\ b = <<>> THEN <<>>
    ELSE IF a = <<>> THEN Clean(b)
    ELSE IF b = <<>> THEN Clean(a)
    ELSE Clean(a \o <<"/">> \o b)

\* url.Values.Encode: the pairs sorted by key (KeyOrder lists the keys the
\* callers use in byte order), written key "=" value and joined by "&".
KeyOrder == <<"limit", "page", "type">>

RECURSIVE EncodeFrom(_, _)
EncodeFrom(query, i) ==
    IF i > Len(KeyOrder) THEN <<>>
    ELSE LET rest == EncodeFrom(query, i + 1)
             here == {kv \in query : kv[1] = KeyOrder[i]}
         IN  IF here = {} THEN rest
             ELSE LET kv == CHOOSE x \in here : TRUE
                  IN  <<kv[1], "=", kv[2]>>
                        \o (IF rest = <<>> THEN <<>> ELSE <<"&">> \o rest)

Encode(query) == EncodeFrom(query, 1)

\* strconv.FormatInt(i, 10).
DigitChars == <<"0", "1", "2", "3", "4", "5", "6", "7", "8", "9">>

RECURSIVE FormatUint(_)
FormatUint(u) ==
    IF u < 10 THEN <<DigitChars[u + 1]>>
    ELSE FormatUint(u \div 10) \o <<DigitChars[(u % 10) + 1]>>

FormatInt(i) == IF i < 0 THEN <<"-">> \o FormatUint(-i) ELSE FormatUint(i)

\* textproto.CanonicalMIMEHeaderKey on the header names in use.
CanonicalMIMEHeaderKey(k) ==
    CASE k = "content-type" -> "Content-Type"
      [] k = "x-grafana-org-id" -> "X-Grafana-Org-Id"
      [] k = "x-trace" -> "X-Trace"
      [] OTHER -> k

\* http.Header: a map from canonical name to the list of its values, in
\* the order they were added. Header.Add appends one value to the list of
\* the canonical form of the name and removes none.
EmptyHeader == [k \in {} |-> <<>>]

Header_Add(h, k, v) ==
    LET key == CanonicalMIMEHeaderKey(k)
    IN  [x \in (DOMAIN h) \cup {key} |->
            IF x # key THEN h[x]
            ELSE IF key \in DOMAIN h THEN Append(h[key], v) ELSE <<v>>]

\* range over Config.HTTPHeaders (a map: one value per key): every
\* execution of the range statement visits the entries in an order of its
\* own, which the language leaves unspecified.
HTTPHeaders_Range(hh) ==
    {order \in [1..Cardinality(hh) -> hh] :
        \A kv \in hh : \E i \in 1..Cardinality(hh) : order[i] = kv}

\* Lines 253-257: Header.Add for each entry, in the order visited.
RECURSIVE Header_AddAll(_, _)
Header_AddAll(h, order) ==
    IF order = <<>> THEN h
    ELSE Header_AddAll(Header_Add(h, Head(order)[1], Head(order)[2]), Tail(order))

\* url.URL.String of a URL without opaque part or fragment, as
\* http.NewRequest receives it.
URL_String(u) ==
    LET scheme == IF u.Scheme # "" THEN <<u.Scheme, ":">> ELSE <<>>
        auth == IF u.Scheme # "" \/ u.Host # "" \/ u.User # "nil"
                THEN (IF u.Host # "" \/ u.Path # <<>> \/ u.User # "nil"
                      THEN <<"//">> ELSE <<>>)
                     \o (IF u.User # "nil" THEN <<u.User, "@">> ELSE <<>>)
                     \o (IF u.Host # "" THEN <<u.Host>> ELSE <<>>)
                ELSE <<>>
        slash == IF u.Path # <<>> /\ ~Rooted(u.Path) /\ u.Host # ""
                 THEN <<"/">> ELSE <<>>
        q == IF u.RawQuery # <<>> THEN <<"?">> \o u.RawQuery ELSE <<>>
    IN  scheme \o auth \o slash \o u.Path \o q

\* New: no field of cfg is validated; BasicAuth goes into the URL's user
\* info and a nil Config.Client is replaced by the default client.
New(u, cfg) ==
    [config  |-> cfg,
     baseURL |-> IF cfg.BasicAuth # "nil" THEN [u EXCEPT !.User = cfg.BasicAuth]
                 ELSE u,
     client  |-> IF cfg.Client = "nil" THEN "cleanhttp.DefaultClient"
                 ELSE cfg.Client]

\* WithOrgID has a value receiver: c is a copy of the caller's Client, the
\* assignment changes the copy, and the copy's address is returned.
WithOrgID(c, orgID) == [c EXCEPT !.config.OrgID = orgID]

\* The caller's Client after WithOrgID(orgID) returned.
WithOrgID_ReceiverByPointer(c, orgID) == [c EXCEPT !.config.OrgID = orgID]
WithOrgID_Receiver(c, orgID) == c

\* newRequest, lines 237-239: url is a copy of c.baseURL.
newRequest_URL(baseURL, requestPath, query) ==
    [baseURL EXCEPT !.Path = Join(@, requestPath), !.RawQuery = Encode(query)]

\* The Client after newRequest assigned to its local url.
newRequest_ClientAliased(c, url) == [c EXCEPT !.baseURL = url]
newRequest_Client(c, url) == c

\* newRequest, lines 245-257 and 267: the headers, in the order added;
\* order is the order in which the range on line 254 visited HTTPHeaders.
newRequest_Header(cfg, order) ==
    LET h1 == IF cfg.APIKey # <<>>
              THEN Header_Add(EmptyHeader, "Authorization", <<"Bearer", " ">> \o cfg.APIKey)
              ELSE EmptyHeader
        h2 == IF cfg.OrgID # 0
              THEN Header_Add(h1, "X-Grafana-Org-Id", FormatInt(cfg.OrgID))
              ELSE h1
        h3 == Header_AddAll(h2, order)
    IN  Header_Add(h3, "Content-Type", <<"application/json">>)

\* The request http.NewRequest returns with the headers added.
MkRequest(method, url, cfg, order) ==
    [Method |-> method, URL |-> URL_String(url),
     Header |-> newRequest_Header(cfg, order)]

NoRequest == [Method |-> "", URL |-> <<>>, Header |-> EmptyHeader]

\* Bounds of the client model: how many Client values a behaviour creates
\* (New once, WithOrgID for the others), and the concurrent calls.
MaxClients == 3
Calls == {1, 2}

\* The base URLs a Client is built with, as url.Parse returns them.
MkURL(scheme, host, p, q) ==
    [Scheme |-> scheme, Host |-> host, User |-> "nil", Path |-> p, RawQuery |-> q]

BaseURLs ==
    { MkURL("http", "h", <<>>, <<>>),
      MkURL("http", "h", <<"/">>, <<>>),
      MkURL("http", "h", <<"/", "api">>, <<>>),
      MkURL("http", "h", <<"/", "api", "/">>, <<>>),
      MkURL("http", "h", <<"/", "api">>, <<"x", "=", "1">>),
      MkURL("", "", <<"api">>, <<>>),
      MkURL("", "", <<"api", "/">>, <<>>) }

\* The configurations a Client is built with. New accepts every value.
MkConfig(key, auth, hh, cl, org, retries) ==
    [APIKey |-> key, BasicAuth |-> auth, HTTPHeaders |-> hh, Client |-> cl,
     OrgID |-> org, NumRetries |-> retries]

Configs ==
    { MkConfig(<<>>, "nil", {}, "nil", 0, 0),
      MkConfig(<<"k">>, "nil", {<<"x-trace", <<"t">>>>}, "nil", 0, 1),
      MkConfig(<<>>, "u:p",
               {<<"content-type", <<"text/plain">>>>, <<"X-Trace", <<"t">>>>,
                <<"x-trace", <<"u">>>>},
               "custom", 12, 1),
      MkConfig(<<"k">>, "nil", {}, "nil", -3, 1) }

OrgIDs == {0, 7}

\* What the endpoint wrappers pass: method, path and query.
MkInput(method, requestPath, query) ==
    [method |-> method, requestPath |-> requestPath, query |-> query]

CallInputs ==
    { MkInput("GET", <<"/", "dashboards", "/", "db", "/", "x">>, {}),
      MkInput("GET", <<"dashboards", "/", "db", "/", "x">>, {}),
      MkInput("GET", <<"/", "dashboards", "/", "db", "/", "x", "/">>,
              {<<"type", "dash-db">>, <<"limit", "1000">>, <<"page", "1">>}),
      MkInput("DELETE", <<"dashboards", "/", "db", "/", "x", "/">>, {}),
      MkInput("GET", <<"/", "dashboards", "/", "db", "/", "..", "/", "..", "/", "..", "/", "x">>, {}) }

VARIABLES
    gfLog,          \* os.Getenv("GF_LOG") != ""
    config,         \* Client.config
    call,           \* the arguments of the call in progress
    pc,             \* where the call is
    n,              \* the loop index
    body,           \* request: the local io.Reader body
    bodyBuffer,     \* request: bodyBuffer
    requestBytes,   \* Request: requestBytes
    req,            \* the request built for the current attempt
    resp,           \* resp
    err,            \* the function-level err
    loopErr,        \* Request: the err declared inside the loop body
    bodyContents,   \* request: bodyContents; Request: responseBytes
    outcome,        \* what the call returned
    sends,          \* number of requests handed to the transport
    delays,         \* number of time.Sleep calls
    hist,           \* what happened to the attempts so far
    teeRest         \* request: the bytes of the caller's body that the
                    \* transport of the first attempt has not read through
                    \* the TeeReader when Do returns

VARIABLES
    clients,        \* the Client values that exist, in order of creation
    created,        \* each Client as it was when New or WithOrgID returned it
    derived,        \* for each Client, the WithOrgID call that returned it
    calls,          \* the concurrent calls on the clients
    phase,          \* 0: one call; 1: request runs and the transport is
                    \* recorded; 2: Request runs on the recorded transport
    tape,           \* the recorded outcomes of Do and ReadAll
    first,          \* what the recorded call did
    dash            \* the Dashboards call

evars == <<gfLog, config, call, pc, n, body, bodyBuffer, requestBytes, req,
           resp, err, loopErr, bodyContents, outcome, sends, delays, hist,
           teeRest>>

cvars == <<clients, created, derived, calls>>

outside == <<cvars, phase, first, dash>>

vars == <<evars, outside, tape>>

NoCall == [fn |-> "none", body |-> NilReader, shape |-> "nil", badURL |-> FALSE,
           reqT |-> "nil"]

NoHist == [allFailed |-> TRUE, allRetryable |-> TRUE, termAt |-> -1,
           termStatus |-> 0, termBody |-> <<>>, lastFailure |-> NoErr,
           readOK |-> FALSE, lastStatus |-> 0, lastBody |-> <<>>,
           decoded |-> FALSE, partial |-> FALSE, builtFrom |-> NilReader,
           builtKind |-> "none", respAt |-> -1, bytesAt |-> -1]

\* The executor before a call.
Idle ==
    /\ call = NoCall
    /\ pc = "idle"
    /\ n = 0
    /\ body = NilReader
    /\ bodyBuffer = <<>>
    /\ requestBytes = <<>>
    /\ req = NoReq
    /\ resp = NilResp
    /\ err = NoErr
    /\ loopErr = NoErr
    /\ bodyContents = <<>>
    /\ outcome = Running
    /\ sends = 0
    /\ delays = 0
    /\ hist = NoHist
    /\ teeRest = <<>>

NoFirst == [call |-> NoCall, sends |-> 0, delays |-> 0, outcome |-> Running]

\* made: how many Clients existed when the call built its last request.
IdleCall == [pc |-> "idle", c |-> 0, in |-> MkInput("", <<>>, {}), n |-> 0,
             url |-> MkURL("", "", <<>>, <<>>), before |-> 0,
             first |-> NoRequest, last |-> NoRequest, made |-> 0]

NoDash == [pc |-> "unused", fetched |-> <<>>, requested |-> <<>>]

NoClients ==
    /\ clients = <<>>
    /\ created = <<>>
    /\ derived = <<>>
    /\ calls = [p \in Calls |-> IdleCall]

Init ==
    /\ gfLog \in BOOLEAN
    /\ config \in [NumRetries : NumRetriesValues]
    /\ Idle
    /\ phase = 0
    /\ tape = <<>>
    /\ first = NoFirst
    /\ NoClients
    /\ dash = NoDash

----------------------------------------------------------------------------
(* Client.newRequest                                                       *)

\* newRequest(method, requestPath, query, body): http.NewRequest fails on a
\* malformed method or URL (badURL); with GF_LOG set and a body that is not
\* the nil interface, the log line asserts body.(*bytes.Buffer), which
\* panics for every other reader type.
newRequest(badURL, b, log) ==
    IF badURL
    THEN [kind |-> "error", req |-> NoReq]
    ELSE IF log /\ b.kind # "nil" /\ b.kind # "Buffer"
    THEN [kind |-> "panic", req |-> NoReq]
    ELSE [kind |-> "req", req |-> [hasBody |-> b.kind # "nil", body |-> b.data]]

----------------------------------------------------------------------------
(* The transport: c.client.Do and ioutil.ReadAll(resp.Body)                *)

\* What c.client.Do(req) can do with a request whose body holds len bytes:
\* fail with no response ("net"), fail with the response of a rejected
\* redirect ("policy"), or return a response; in each case having read
\* `consumed` bytes of the request body.
TransportOutcomes(len) ==
    { [kind |-> "net", status |-> 0, body |-> <<>>, consumed |-> k] :
        k \in 0..len }
    \cup
    { [kind |-> "policy", status |-> s, body |-> <<>>, consumed |-> k] :
        s \in PolicyStatuses, k \in 0..len }
    \cup
    { [kind |-> "resp", status |-> s, body |-> b, consumed |-> k] :
        s \in Statuses, b \in ResponseBodies, k \in 0..len }

\* The response and the error Do returns.
DoResp(o) == IF o.kind = "net" THEN NilResp ELSE MkResp(o.status, o.body)
DoErr(o, at) == IF o.kind = "resp" THEN NoErr ELSE MkErr(o.kind, at)

\* ioutil.ReadAll on a body holding b: all of it and no error, or the bytes
\* read before the failure together with the error.
ReadOutcomes(b) ==
    { [data |-> b, failed |-> FALSE] }
    \cup { [data |-> Prefix(b, j), failed |-> TRUE] : j \in 0..Len(b) }

\* The reader after the transport read k bytes from it.
Advance(r, k) == [r EXCEPT !.data = Suffix(r.data, k)]

\* A retryable status is >= 500 or 429.
Retryable(status) ==
    status >= StatusInternalServerError \/ status = StatusTooManyRequests

\* The transport of the call in progress: free while one call runs or is
\* recorded, the recorded outcomes while they are replayed. A recorded
\* transport reads the whole request body.
Transport(len) ==
    LET all == {o \in TransportOutcomes(len) : phase = 0 \/ o.consumed = len}
    IN  IF phase = 2 /\ tape # <<>> THEN {o \in all : o = Head(tape)} ELSE all

Reads(b) ==
    IF phase = 2 /\ tape # <<>>
    THEN {r \in ReadOutcomes(b) : r = Head(tape)}
    ELSE ReadOutcomes(b)

Tape_Next(o) ==
    IF phase = 1 THEN Append(tape, o)
    ELSE IF phase = 2 /\ tape # <<>> THEN Tail(tape)
    ELSE tape

\* The second call of a pair gets the arguments of the first: the same
\* body bytes, the same result shape, the same URL.
Pair_Allows(fn, t, d, shape, bad) ==
    CASE phase = 1 -> fn = "request" /\ shape # "nil"
      [] phase = 2 -> /\ fn = "Request"
                      /\ shape = first.call.shape
                      /\ bad = first.call.badURL
                      /\ IF first.call.body.kind = "nil" THEN t = "nil"
                         ELSE t = "ok" /\ d = first.call.body.data
      [] OTHER -> TRUE

----------------------------------------------------------------------------
(* History of the attempts of the call in progress.                        *)

HistBuilt(h, from, kind) == [h EXCEPT !.builtFrom = from, !.builtKind = kind]

\* partial: the bytes held for decoding come from a read that failed.
HistFailed(h, e) ==
    [h EXCEPT !.allRetryable = FALSE, !.lastFailure = e, !.readOK = FALSE,
              !.partial = IF e.kind = "read" THEN TRUE ELSE @]

\* respAt: the attempt whose Do assigned the response resp holds (-1: nil);
\* bytesAt: the attempt whose ReadAll assigned the bytes held for decoding.
HistAssigned(h, at, r) == [h EXCEPT !.respAt = IF r.nil THEN -1 ELSE at]

HistBytes(h, at) == [h EXCEPT !.bytesAt = at]

HistResp(h, r) ==
    [h EXCEPT !.lastStatus = r.StatusCode, !.lastBody = r.Body, !.readOK = FALSE]

HistRead(h, at, status, b) ==
    [h EXCEPT !.allFailed = FALSE,
              !.readOK = TRUE,
              !.partial = FALSE,
              !.allRetryable = h.allRetryable /\ Retryable(status),
              !.termAt = IF h.termAt = -1 /\ ~Retryable(status) THEN at ELSE @,
              !.termStatus = IF h.termAt = -1 /\ ~Retryable(status) THEN status ELSE @,
              !.termBody = IF h.termAt = -1 /\ ~Retryable(status) THEN b ELSE @]

----------------------------------------------------------------------------
(* Client.request                                                          *)

\* The readers the callers of request pass as body: nil, or
\* bytes.NewBuffer(data).
CallerReaders ==
    { NilReader } \cup { MkReader("Buffer", d) : d \in RequestBytes }

\* Lines 164-168: with retries configured and a body, body is wrapped in a
\* TeeReader that copies what is read from it into bodyBuffer.
request_Tee(numRetries, b) ==
    IF numRetries > 0 /\ b.kind # "nil" THEN MkReader("Tee", b.data) ELSE b

\* bodyBuffer.Bytes() on line 174 while the transport of the first attempt
\* may still be writing to bodyBuffer through the TeeReader (rest: what it
\* has not read yet). Nothing orders the two: the value is the buffer as
\* it is, or, read during a write, the buffer with its length already
\* extended over bytes that are not written yet ("?").
request_BufferBytes(buffer, rest) ==
    {buffer} \cup {buffer \o [i \in 1..k |-> "?"] : k \in 1..Len(rest)}

\* Lines 172-175: a retry reads from the bytes stashed in bodyBuffer.
request_Body(at, b, buffer) ==
    IF at > 0 THEN MkReader("BytesReader", buffer) ELSE b

\* Line 171: the loop runs while n <= NumRetries.
request_LoopCondOffByOne(at, numRetries) == at < numRetries
request_LoopCond(at, numRetries) == at <= numRetries

\* Line 207: the loop ends on a status < 500 that is not 429.
request_FinalBelow400(status) ==
    status < StatusErrorFloor /\ status # StatusTooManyRequests
request_Final(status) ==
    status < StatusInternalServerError /\ status # StatusTooManyRequests

\* Lines 219-233: the result for a response's status and the bytes read.
request_DecodeNoNilCheck(status, data, shape) ==
    IF status >= StatusErrorFloor
    THEN RetErrorf(status, data, NoErr)
    ELSE LET u == Unmarshal(data, shape)
         IN  IF u.err # "nil" \/ shape = "nil"
             THEN RetErr(MkErr("InvalidUnmarshalError", -1))
             ELSE RetOK(u.value)
request_Decode(status, data, shape) ==
    IF status >= StatusErrorFloor
    THEN RetErrorf(status, data, NoErr)
    ELSE IF shape = "nil"
    THEN RetOK(NilValue)
    ELSE LET u == Unmarshal(data, shape)
         IN  IF u.err # "nil" THEN RetErr(MkErr(u.err, -1)) ELSE RetOK(u.value)

request_Start ==
    /\ pc = "idle"
    /\ \E b \in CallerReaders, shape \in {"nil", "struct", "slice"},
          bad \in BOOLEAN :
        /\ Pair_Allows("request", "nil", b.data, shape, bad)
        /\ call' = [fn |-> "request", body |-> b, shape |-> shape,
                    badURL |-> bad, reqT |-> "nil"]
        /\ body' = request_Tee(config.NumRetries, b)
    /\ pc' = "loop"
    /\ n' = 0
    /\ UNCHANGED <<gfLog, config, bodyBuffer, requestBytes, req, resp, err,
                   loopErr, bodyContents, outcome, sends, delays, hist>>
    /\ UNCHANGED <<outside, tape>>
    /\ teeRest' = <<>>

request_NewRequest ==
    /\ pc = "loop"
    /\ call.fn = "request"
    /\ request_LoopCond(n, config.NumRetries)
    /\ \E bytes \in request_BufferBytes(bodyBuffer, teeRest) :
       LET b == request_Body(n, body, bytes)
           r == newRequest(call.badURL, b, gfLog)
       IN  /\ body' = b
           /\ hist' = HistBuilt(hist, b, r.kind)
           /\ IF r.kind = "error"
              THEN /\ err' = MkErr("construct", n)
                   /\ outcome' = RetErr(MkErr("construct", n))
                   /\ pc' = "done"
                   /\ req' = req
              ELSE IF r.kind = "panic"
              THEN /\ outcome' = RetPanic("typeassert")
                   /\ pc' = "done"
                   /\ UNCHANGED <<err, req>>
              ELSE /\ req' = r.req
                   /\ err' = NoErr
                   /\ pc' = "built"
                   /\ outcome' = outcome
    /\ UNCHANGED <<gfLog, config, call, n, bodyBuffer, requestBytes, resp,
                   loopErr, bodyContents, sends, delays>>
    /\ UNCHANGED <<outside, tape>>
    /\ UNCHANGED teeRest

request_Sleep ==
    /\ pc = "built"
    /\ call.fn = "request"
    /\ n # 0
    /\ delays' = delays + 1
    /\ pc' = "slept"
    /\ UNCHANGED <<gfLog, config, call, n, body, bodyBuffer, requestBytes, req,
                   resp, err, loopErr, bodyContents, outcome, sends, hist>>
    /\ UNCHANGED <<outside, tape>>
    /\ UNCHANGED teeRest

request_Do ==
    /\ call.fn = "request"
    /\ (pc = "built" /\ n = 0) \/ pc = "slept"
    /\ \E o \in Transport(Len(req.body)) :
        /\ sends' = sends + 1
        /\ tape' = Tape_Next(o)
        /\ body' = Advance(body, o.consumed)
        /\ bodyBuffer' = IF body.kind = "Tee"
                         THEN bodyBuffer \o Prefix(body.data, o.consumed)
                         ELSE bodyBuffer
        /\ teeRest' = IF body.kind = "Tee" THEN Suffix(body.data, o.consumed)
                       ELSE teeRest
        /\ resp' = DoResp(o)
        /\ err' = DoErr(o, n)
        /\ IF o.kind # "resp"
           THEN /\ n' = n + 1
                /\ pc' = "loop"
                /\ hist' = HistFailed(HistAssigned(hist, n, DoResp(o)), DoErr(o, n))
           ELSE /\ n' = n
                /\ pc' = "read"
                /\ hist' = HistResp(HistAssigned(hist, n, DoResp(o)), DoResp(o))
    /\ UNCHANGED <<gfLog, config, call, requestBytes, req, loopErr,
                   bodyContents, outcome, delays>>
    /\ UNCHANGED outside

\* After Do returned, the transport goes on reading the body of the first
\* attempt: the TeeReader writes what it reads to bodyBuffer.
request_TransportReads ==
    /\ call.fn = "request"
    /\ pc \notin {"idle", "done"}
    /\ teeRest # <<>>
    /\ \E k \in 1..Len(teeRest) :
        /\ bodyBuffer' = bodyBuffer \o Prefix(teeRest, k)
        /\ teeRest' = Suffix(teeRest, k)
    /\ UNCHANGED <<gfLog, config, call, pc, n, body, requestBytes, req, resp,
                   err, loopErr, bodyContents, outcome, sends, delays, hist>>
    /\ UNCHANGED <<outside, tape>>

request_ReadAll ==
    /\ pc = "read"
    /\ call.fn = "request"
    /\ \E r \in Reads(resp.Body) :
        /\ bodyContents' = r.data
        /\ tape' = Tape_Next(r)
        /\ IF r.failed
           THEN /\ err' = MkErr("read", n)
                /\ n' = n + 1
                /\ pc' = "loop"
                /\ hist' = HistFailed(HistBytes(hist, n), MkErr("read", n))
           ELSE /\ err' = NoErr
                /\ hist' = HistRead(HistBytes(hist, n), n, resp.StatusCode, resp.Body)
                /\ IF request_Final(resp.StatusCode)
                   THEN n' = n /\ pc' = "after"
                   ELSE n' = n + 1 /\ pc' = "loop"
    /\ UNCHANGED <<gfLog, config, call, body, bodyBuffer, requestBytes, req,
                   resp, loopErr, outcome, sends, delays>>
    /\ UNCHANGED outside
    /\ UNCHANGED teeRest

request_LoopExit ==
    /\ pc = "loop"
    /\ call.fn = "request"
    /\ ~request_LoopCond(n, config.NumRetries)
    /\ pc' = "after"
    /\ UNCHANGED <<gfLog, config, call, n, body, bodyBuffer, requestBytes, req,
                   resp, err, loopErr, bodyContents, outcome, sends, delays,
                   hist>>
    /\ UNCHANGED <<outside, tape>>
    /\ UNCHANGED teeRest

\* Lines 211-233.  resp.StatusCode on a nil resp is a nil dereference.
request_Return ==
    /\ pc = "after"
    /\ call.fn = "request"
    /\ pc' = "done"
    /\ IF err # NoErr
       THEN outcome' = RetErr(err) /\ hist' = hist
       ELSE IF resp.nil
       THEN outcome' = RetPanic("nilderef") /\ hist' = hist
       ELSE /\ outcome' = request_Decode(resp.StatusCode, bodyContents, call.shape)
            /\ hist' = [hist EXCEPT !.decoded = TRUE]
    /\ UNCHANGED <<gfLog, config, call, n, body, bodyBuffer, requestBytes, req,
                   resp, err, loopErr, bodyContents, sends, delays>>
    /\ UNCHANGED <<outside, tape>>
    /\ UNCHANGED teeRest

----------------------------------------------------------------------------
(* Request[ReqT, ResT]                                                     *)

\* Line 96: the loop runs while n <= NumRetries.
Request_LoopCond(at, numRetries) == at <= numRetries

\* Line 126: the loop ends on a status < 500 that is not 429.
Request_Final(status) ==
    status < StatusInternalServerError /\ status # StatusTooManyRequests

\* Line 97: every attempt reads from a new reader over requestBytes.
Request_Body(bytes) == MkReader("BytesReader", bytes)

\* Lines 134-153: the result for a response's status and the bytes read.
Request_Decode(status, data, shape) ==
    IF status >= StatusErrorFloor
    THEN LET u == Unmarshal(data, "map")
         IN  IF u.err # "nil"
             THEN RetErrorf(status, data, MkErr(u.err, -1))
             ELSE RetAPIError(status, u.value)
    ELSE LET u == Unmarshal(data, shape)
         IN  IF u.err # "nil" THEN RetErr(MkErr(u.err, -1)) ELSE RetOK(u.value)

\* Lines 84-92: requestBody is nil, marshals to bytes, or cannot be
\* marshalled (json.Marshal fails).
Request_Start ==
    /\ pc = "idle"
    /\ \E t \in {"nil", "ok", "bad"}, d \in RequestBytes,
          shape \in {"struct", "slice"}, bad \in BOOLEAN :
        /\ Pair_Allows("Request", t, d, shape, bad)
        /\ call' = [fn |-> "Request",
                    body |-> IF t = "ok" THEN MkReader("Marshalled", d)
                             ELSE NilReader,
                    shape |-> shape, badURL |-> bad, reqT |-> t]
        /\ requestBytes' = IF t = "ok" THEN d ELSE <<>>
        /\ IF t = "bad"
           THEN /\ err' = MkErr("marshal", -1)
                /\ outcome' = RetErr(MkErr("marshal", -1))
                /\ pc' = "done"
           ELSE /\ err' = NoErr
                /\ outcome' = outcome
                /\ pc' = "loop"
    /\ n' = 0
    /\ UNCHANGED <<gfLog, config, body, bodyBuffer, req, resp, loopErr,
                   bodyContents, sends, delays, hist>>
    /\ UNCHANGED <<outside, tape>>
    /\ UNCHANGED teeRest

\* Line 97: req, err := ... declares a new err for the loop body.
Request_NewRequest ==
    /\ pc = "loop"
    /\ call.fn = "Request"
    /\ Request_LoopCond(n, config.NumRetries)
    /\ LET b == Request_Body(requestBytes)
           r == newRequest(call.badURL, b, gfLog)
       IN  /\ hist' = HistBuilt(hist, b, r.kind)
           /\ IF r.kind = "error"
              THEN /\ loopErr' = MkErr("construct", n)
                   /\ outcome' = RetErr(MkErr("construct", n))
                   /\ pc' = "done"
                   /\ req' = req
              ELSE IF r.kind = "panic"
              THEN /\ outcome' = RetPanic("typeassert")
                   /\ pc' = "done"
                   /\ UNCHANGED <<loopErr, req>>
              ELSE /\ req' = r.req
                   /\ loopErr' = NoErr
                   /\ pc' = "built"
                   /\ outcome' = outcome
    /\ UNCHANGED <<gfLog, config, call, n, body, bodyBuffer, requestBytes, resp,
                   err, bodyContents, sends, delays>>
    /\ UNCHANGED <<outside, tape>>
    /\ UNCHANGED teeRest

Request_Sleep ==
    /\ pc = "built"
    /\ call.fn = "Request"
    /\ n # 0
    /\ delays' = delays + 1
    /\ pc' = "slept"
    /\ UNCHANGED <<gfLog, config, call, n, body, bodyBuffer, requestBytes, req,
                   resp, err, loopErr, bodyContents, outcome, sends, hist>>
    /\ UNCHANGED <<outside, tape>>
    /\ UNCHANGED teeRest

\* Line 107: resp is the function's resp, err the loop body's.
Request_Do ==
    /\ call.fn = "Request"
    /\ (pc = "built" /\ n = 0) \/ pc = "slept"
    /\ \E o \in Transport(Len(req.body)) :
        /\ sends' = sends + 1
        /\ tape' = Tape_Next(o)
        /\ resp' = DoResp(o)
        /\ loopErr' = DoErr(o, n)
        /\ IF o.kind # "resp"
           THEN /\ n' = n + 1
                /\ pc' = "loop"
                /\ hist' = HistFailed(HistAssigned(hist, n, DoResp(o)), DoErr(o, n))
           ELSE /\ n' = n
                /\ pc' = "read"
                /\ hist' = HistResp(HistAssigned(hist, n, DoResp(o)), DoResp(o))
    /\ UNCHANGED <<gfLog, config, call, body, bodyBuffer, requestBytes, req,
                   err, bodyContents, outcome, delays>>
    /\ UNCHANGED outside
    /\ UNCHANGED teeRest

Request_ReadAll ==
    /\ pc = "read"
    /\ call.fn = "Request"
    /\ \E r \in Reads(resp.Body) :
        /\ bodyContents' = r.data
        /\ tape' = Tape_Next(r)
        /\ IF r.failed
           THEN /\ loopErr' = MkErr("read", n)
                /\ n' = n + 1
                /\ pc' = "loop"
                /\ hist' = HistFailed(HistBytes(hist, n), MkErr("read", n))
           ELSE /\ loopErr' = NoErr
                /\ hist' = HistRead(HistBytes(hist, n), n, resp.StatusCode, resp.Body)
                /\ IF Request_Final(resp.StatusCode)
                   THEN n' = n /\ pc' = "after"
                   ELSE n' = n + 1 /\ pc' = "loop"
    /\ UNCHANGED <<gfLog, config, call, body, bodyBuffer, requestBytes, req,
                   resp, err, outcome, sends, delays>>
    /\ UNCHANGED outside
    /\ UNCHANGED teeRest

Request_LoopExit ==
    /\ pc = "loop"
    /\ call.fn = "Request"
    /\ ~Request_LoopCond(n, config.NumRetries)
    /\ pc' = "after"
    /\ UNCHANGED <<gfLog, config, call, n, body, bodyBuffer, requestBytes, req,
                   resp, err, loopErr, bodyContents, outcome, sends, delays,
                   hist>>
    /\ UNCHANGED <<outside, tape>>
    /\ UNCHANGED teeRest

\* Lines 130-153.  The err tested on line 130 is the function's err, which
\* the loop body never assigns; resp.StatusCode on a nil resp is a nil
\* dereference.
Request_Return ==
    /\ pc = "after"
    /\ call.fn = "Request"
    /\ pc' = "done"
    /\ IF err # NoErr
       THEN outcome' = RetErr(err) /\ hist' = hist
       ELSE IF resp.nil
       THEN outcome' = RetPanic("nilderef") /\ hist' = hist
       ELSE /\ outcome' = Request_Decode(resp.StatusCode, bodyContents, call.shape)
            /\ hist' = [hist EXCEPT !.decoded = TRUE]
    /\ UNCHANGED <<gfLog, config, call, n, body, bodyBuffer, requestBytes, req,
                   resp, err, loopErr, bodyContents, sends, delays>>
    /\ UNCHANGED <<outside, tape>>
    /\ UNCHANGED teeRest

----------------------------------------------------------------------------
\* The steps of the two executors.
Executor ==
    \/ request_Start
    \/ request_NewRequest
    \/ request_Sleep
    \/ request_Do
    \/ request_ReadAll
    \/ request_LoopExit
    \/ request_Return
    \/ Request_Start
    \/ Request_NewRequest
    \/ Request_Sleep
    \/ Request_Do
    \/ Request_ReadAll
    \/ Request_LoopExit
    \/ Request_Return

Next ==
    \/ Executor
    \/ request_TransportReads

Spec == Init /\ [][Next]_vars

----------------------------------------------------------------------------
(* Clients and the requests built from them.  The executors call          *)
(* c.newRequest once per attempt (lines 97 and 177); here a call is its   *)
(* sequence of newRequest calls, and what the transport answers only      *)
(* decides whether another attempt follows.                               *)

PlainConfig == MkConfig(<<>>, "nil", {}, "nil", 0, 0)
PlainURL == MkURL("http", "h", <<"/", "api">>, <<>>)

InitialClients ==
    {New(u, PlainConfig) : u \in BaseURLs} \cup {New(PlainURL, cfg) : cfg \in Configs}

InitClient ==
    /\ gfLog = FALSE
    /\ config = [NumRetries |-> 0]
    /\ Idle
    /\ phase = 0
    /\ tape = <<>>
    /\ first = NoFirst
    /\ dash = NoDash
    /\ \E c \in InitialClients :
        /\ clients = <<c>>
        /\ created = <<c>>
    /\ derived = <<[parent |-> 0, orgID |-> 0]>>
    /\ calls = [p \in Calls |-> IdleCall]

\* c.WithOrgID(orgID) on the i-th client, the original or a derived one,
\* at any moment of the calls in progress.
Client_WithOrgID(i, orgID) ==
    /\ Len(clients) < MaxClients
    /\ clients' = Append([clients EXCEPT ![i] = WithOrgID_Receiver(@, orgID)],
                         WithOrgID(clients[i], orgID))
    /\ created' = Append(created, WithOrgID(clients[i], orgID))
    /\ derived' = Append(derived, [parent |-> i, orgID |-> orgID])
    /\ UNCHANGED <<evars, calls, phase, tape, first, dash>>

\* A wrapper calls request or Request on the i-th client.
Executor_Start(p, i, in) ==
    /\ calls[p].pc = "idle"
    /\ calls' = [calls EXCEPT ![p] =
                    [IdleCall EXCEPT !.pc = "start", !.c = i, !.in = in,
                                     !.before = clients[i]]]
    /\ UNCHANGED <<evars, clients, created, derived, phase, tape, first, dash>>

\* Line 237: url := c.baseURL.
newRequest_CopyURL(p) ==
    /\ calls[p].pc = "start"
    /\ calls' = [calls EXCEPT ![p].url = clients[calls[p].c].baseURL,
                              ![p].pc = "copied"]
    /\ UNCHANGED <<evars, clients, created, derived, phase, tape, first, dash>>

\* Lines 238-268: the path, the query, the request and its headers.
newRequest_Build(p) ==
    /\ calls[p].pc = "copied"
    /\ \E order \in HTTPHeaders_Range(clients[calls[p].c].config.HTTPHeaders) :
          LET k == calls[p]
              u == newRequest_URL(k.url, k.in.requestPath, k.in.query)
              r == MkRequest(k.in.method, u, clients[k.c].config, order)
          IN  /\ clients' = [clients EXCEPT ![k.c] = newRequest_Client(@, u)]
              /\ calls' = [calls EXCEPT ![p].url = u,
                                        ![p].last = r,
                                        ![p].first = IF k.n = 0 THEN r ELSE @,
                                        ![p].made = Len(clients),
                                        ![p].pc = "sent"]
    /\ UNCHANGED <<evars, created, derived, phase, tape, first, dash>>

\* The attempt failed or was answered with a retryable status, and the
\* loop condition allows another attempt.
Executor_Retry(p) ==
    /\ calls[p].pc = "sent"
    /\ request_LoopCond(calls[p].n + 1, clients[calls[p].c].config.NumRetries)
    /\ calls' = [calls EXCEPT ![p].n = @ + 1, ![p].pc = "start"]
    /\ UNCHANGED <<evars, clients, created, derived, phase, tape, first, dash>>

Executor_Return(p) ==
    /\ calls[p].pc = "sent"
    /\ calls' = [calls EXCEPT ![p].pc = "done"]
    /\ UNCHANGED <<evars, clients, created, derived, phase, tape, first, dash>>

\* Concurrent calls on one Client.
NextClient ==
    \/ \E p \in Calls, i \in 1..Len(clients), in \in CallInputs :
          Executor_Start(p, i, in)
    \/ \E p \in Calls : newRequest_CopyURL(p)
    \/ \E p \in Calls : newRequest_Build(p)
    \/ \E p \in Calls : Executor_Retry(p)
    \/ \E p \in Calls : Executor_Return(p)

SpecClient == InitClient /\ [][NextClient]_vars

\* A Client built by New, the clients derived from it and from each other
\* by WithOrgID, and calls on any of them.
OrgInput == MkInput("GET", <<"/", "dashboards", "/", "db", "/", "x">>, {})

InitOrg ==
    /\ gfLog = FALSE
    /\ config = [NumRetries |-> 0]
    /\ Idle
    /\ phase = 0
    /\ tape = <<>>
    /\ first = NoFirst
    /\ dash = NoDash
    /\ \E cfg \in {x \in Configs : x.HTTPHeaders = {}} :
        /\ clients = <<New(PlainURL, cfg)>>
        /\ created = <<New(PlainURL, cfg)>>
    /\ derived = <<[parent |-> 0, orgID |-> 0]>>
    /\ calls = [p \in Calls |-> IdleCall]

NextOrg ==
    \/ \E i \in 1..Len(clients), orgID \in OrgIDs : Client_WithOrgID(i, orgID)
    \/ \E p \in Calls, i \in 1..Len(clients) : Executor_Start(p, i, OrgInput)
    \/ \E p \in Calls : newRequest_CopyURL(p)
    \/ \E p \in Calls : newRequest_Build(p)
    \/ \E p \in Calls : Executor_Retry(p)
    \/ \E p \in Calls : Executor_Return(p)

SpecOrg == InitOrg /\ [][NextOrg]_vars

----------------------------------------------------------------------------
(* Properties                                                              *)

NumRetries == config.NumRetries
Returned == pc = "done"

\* The decoder of either call path, applied to a status and a body.
DecodeOf(fn, status, data, shape) ==
    IF fn = "request"
    THEN request_Decode(status, data, shape)
    ELSE Request_Decode(status, data, shape)

\* Whether data parses into a target of the shape: null parses into any
\* target, an object into a struct, an array into a slice.
ParsesInto(data, shape) ==
    \/ JSONKind(data) = "null"
    \/ JSONKind(data) = "object" /\ shape = "struct"
    \/ JSONKind(data) = "array" /\ shape = "slice"

\* The map a JSON object parses to.
ParsedObject(data) == [kind |-> "map", kv |-> Members(data)]

\* C1: for NumRetries = N >= 0, when every one of the N+1 attempts ends in a
\* transport failure or a body-read failure, the call returns the last such
\* failure as its error: no success, no API or decode error, no crash.
C1_AllAttemptsFailReturnsLastFailure ==
    (Returned /\ NumRetries >= 0 /\ sends = NumRetries + 1 /\ hist.allFailed)
        => outcome = RetErr(hist.lastFailure)

\* C2: with NumRetries >= 1 and a request body present, the body of the
\* request handed to the transport on every attempt is byte-identical to the
\* caller's original body.
C2_EveryAttemptCarriesOriginalBody ==
    (pc \in {"built", "slept"} /\ NumRetries >= 1 /\ call.body.kind # "nil")
        => (req.hasBody /\ req.body = call.body.data)

\* C3: the decoder runs only on a body that was read completely and without
\* error; when the read of the last attempt's body fails, the call returns
\* that read error.
C3_DecoderOnlyOnCompleteBody ==
    /\ hist.decoded => ~hist.partial
    /\ (Returned /\ NumRetries >= 0 /\ hist.lastFailure = MkErr("read", NumRetries))
          => outcome = RetErr(MkErr("read", NumRetries))

\* C4: once attempt k is the first to receive a fully read response with a
\* terminal status (< 500 and not 429), no further request is sent and no
\* further delay is taken (k+1 requests, k delays: one request and no delay
\* for k = 0), and the call returns what the decoder makes of that response.
C4_TerminalResponseEndsTheCall ==
    hist.termAt # -1 =>
        /\ sends = hist.termAt + 1
        /\ delays = hist.termAt
        /\ pc \in {"after", "done"}
        /\ Returned => outcome = DecodeOf(call.fn, hist.termStatus,
                                          hist.termBody, call.shape)

C4_Witness ==
    /\ Returned
    /\ NumRetries = 2
    /\ hist.termAt = 1
    /\ sends = 2
    /\ hist.termStatus = 404
    /\ outcome.kind = "APIError"

\* C5: for N >= 0, when every attempt received a fully read response with a
\* retryable status, the loop is left only after N+1 requests, and the call
\* returns an error carrying the last response's status and body (the
\* decoder's normal outcome), not a transport error.
C5_PersistentRetryableReturnsLastResponse ==
    (NumRetries >= 0 /\ hist.allRetryable) =>
        /\ sends <= NumRetries + 1
        /\ pc = "after" => sends = NumRetries + 1
        /\ (Returned /\ sends = NumRetries + 1) =>
              /\ outcome.kind \in {"APIError", "Errorf"}
              /\ outcome.status = hist.lastStatus
              /\ Retryable(outcome.status)
              /\ outcome.kind = "Errorf" => outcome.raw = hist.lastBody
              /\ outcome.kind = "APIError" =>
                    outcome.value = Unmarshal(hist.lastBody, "map").value

C5_Witness ==
    /\ Returned
    /\ NumRetries = 2
    /\ hist.allRetryable
    /\ sends = 3
    /\ outcome = RetAPIError(429, ParsedObject(<<"{", "m", "}">>))

\* C6: for N >= 0, a call whose requests can be built sends at most N+1
\* requests, exactly N+1 when no attempt yields a terminal response, and
\* takes one delay before each attempt but the first: none before the first
\* request, and one less than the number of requests once it has returned.
C6_AttemptsAndDelays ==
    (NumRetries >= 0 /\ ~call.badURL /\ call.reqT # "bad") =>
        /\ sends <= NumRetries + 1
        /\ (Returned /\ hist.termAt = -1) => sends = NumRetries + 1
        /\ sends = 0 => delays = 0
        /\ (Returned /\ sends >= 1) => delays = sends - 1

\* C7: for a final response with status s >= 400 whose body is a JSON
\* object, the call, on either call path, returns an APIError whose
\* StatusCode is s and whose Body is the parsed object; and when s is not
\* retryable, no attempt follows the one that received the response.
C7_ErrorResponseIsAPIError ==
    (Returned /\ hist.decoded /\ resp.StatusCode >= StatusErrorFloor
              /\ JSONKind(resp.Body) = "object")
        => /\ outcome = RetAPIError(resp.StatusCode, ParsedObject(resp.Body))
           /\ ~Retryable(resp.StatusCode) => sends = hist.respAt + 1

\* C8: when the final response has status >= 400 the call never returns a
\* success; when, in addition, the response's body is not valid JSON, the
\* call, on either call path, returns a decode error: an error that wraps
\* the parse error and carries the raw body and the status.
C8_ErrorStatusNeverSucceeds ==
    (Returned /\ hist.decoded /\ resp.StatusCode >= StatusErrorFloor) =>
        /\ outcome.kind \in {"APIError", "Errorf"}
        /\ outcome.status = resp.StatusCode
        /\ JSONKind(resp.Body) = "invalid" =>
              /\ outcome.kind = "Errorf"
              /\ outcome.raw = resp.Body
              /\ outcome.err.kind = "SyntaxError"

\* C9: for a final response with status < 400, the legacy request with a nil
\* responseStruct succeeds with no value whatever the body; with a result
\* shape (legacy non-nil responseStruct, or Request) the call succeeds
\* exactly when the body parses into the shape, and otherwise returns the
\* decode error.
C9_SuccessStatusDecoding ==
    (Returned /\ hist.decoded /\ resp.StatusCode < StatusErrorFloor) =>
        IF call.fn = "request" /\ call.shape = "nil"
        THEN outcome = RetOK(NilValue)
        ELSE /\ outcome.kind = "ok" <=> ParsesInto(bodyContents, call.shape)
             /\ outcome.kind # "ok" =>
                   /\ outcome.kind = "err"
                   /\ outcome.err.kind \in {"SyntaxError", "UnmarshalTypeError"}

C9_Witness ==
    /\ Returned
    /\ call.fn = "request"
    /\ call.shape = "nil"
    /\ resp.StatusCode = 200
    /\ hist.readOK
    /\ bodyContents = <<"x">>
    /\ outcome = RetOK(NilValue)

\* C10: GF_LOG never alters control flow: every call of newRequest ends the
\* way it ends with logging disabled (a request built, or the construction
\* error), so a call with logging enabled sends the same requests, returns
\* the same outcome, and does not crash.
C10_LoggingNeverAltersControlFlow ==
    hist.builtKind # "none" =>
        hist.builtKind = newRequest(call.badURL, hist.builtFrom, FALSE).kind

\* C11: when building the request fails, the call returns the construction
\* error at once, with no request sent and no delay taken; and a call that
\* fails before its first send fails with the construction error (or, in
\* Request, with the error of marshalling the request body).
C11_ConstructionFailureIsImmediate ==
    /\ hist.builtKind = "error" =>
          /\ Returned
          /\ outcome = RetErr(MkErr("construct", 0))
          /\ sends = 0
          /\ delays = 0
    /\ (Returned /\ sends = 0) =>
          \/ outcome = RetErr(MkErr("construct", 0))
          \/ call.fn = "Request" /\ outcome = RetErr(MkErr("marshal", -1))

\* C17: the outcome comes from the last attempt only: when an earlier
\* attempt received a retryable response and the last attempt ends in a
\* transport or body-read failure, the call returns that failure; and the
\* decoder never runs on the status of one attempt with the bytes of another.
C17_OutcomeFromLastAttemptOnly ==
    /\ (Returned /\ NumRetries >= 0 /\ sends = NumRetries + 1
                 /\ ~hist.allFailed /\ hist.lastFailure.at = NumRetries)
          => outcome = RetErr(hist.lastFailure)
    /\ hist.decoded => hist.bytesAt = hist.respAt

\* C18: for every NumRetries a Client can be built with, negative values
\* included, a call whose request body can be marshalled and that is not
\* ended by the logging statement either sends at least one request and
\* returns an outcome derived from an attempt, or returns a construction
\* error: it never inspects the status of a response it does not have.
C18_StatusCheckHasAResponse ==
    (Returned /\ call.reqT # "bad" /\ outcome # RetPanic("typeassert")) =>
        \/ sends >= 1 /\ outcome.kind \in {"ok", "err", "APIError", "Errorf"}
        \/ outcome = RetErr(MkErr("construct", 0))

----------------------------------------------------------------------------
(* The two executors on one transport: request runs first and what Do     *)
(* and ReadAll answered is recorded; then Request runs with the same      *)
(* configuration and arguments and gets the recorded answers.             *)

MaxPairRetries == 1

InitPair ==
    /\ gfLog \in BOOLEAN
    /\ config \in [NumRetries : (-1)..MaxPairRetries]
    /\ Idle
    /\ phase = 1
    /\ tape = <<>>
    /\ first = NoFirst
    /\ NoClients
    /\ dash = NoDash

\* request has returned: keep what it did and start over for Request.
Pair_Switch ==
    /\ phase = 1
    /\ pc = "done"
    /\ first' = [call |-> call, sends |-> sends, delays |-> delays,
                 outcome |-> outcome]
    /\ phase' = 2
    /\ call' = NoCall
    /\ pc' = "idle"
    /\ n' = 0
    /\ body' = NilReader
    /\ bodyBuffer' = <<>>
    /\ requestBytes' = <<>>
    /\ req' = NoReq
    /\ resp' = NilResp
    /\ err' = NoErr
    /\ loopErr' = NoErr
    /\ bodyContents' = <<>>
    /\ outcome' = Running
    /\ sends' = 0
    /\ delays' = 0
    /\ hist' = NoHist
    /\ teeRest' = <<>>
    /\ UNCHANGED <<gfLog, config, tape, cvars, dash>>

\* The recorded transport has read the whole body when Do returns.
NextPair ==
    \/ Executor
    \/ Pair_Switch

SpecPair == InitPair /\ [][NextPair]_vars

----------------------------------------------------------------------------
(* Client.Dashboards: the search pages, each fetched with c.request into  *)
(* the one slice newDashboards.                                           *)

\* limit (1000 in the code), scaled down, and the page by which the server
\* has answered with a short page or an error.
PageLimit == 2
MaxPages == 3

\* A search hit as the server writes it: a JSON object that always has
\* "uid" and may leave out "folderUid".
Hits ==
    { {<<"uid", u>>} : u \in {"a", "b"} }
    \cup { {<<"uid", u>>, <<"folderUid", f>>} : u \in {"a", "b"}, f \in {"f", "g"} }

RECURSIVE SeqsUpTo(_, _)
SeqsUpTo(S, k) ==
    IF k = 0 THEN {<<>>}
    ELSE LET shorter == SeqsUpTo(S, k - 1)
         IN  shorter \cup {Append(q, x) : q \in {r \in shorter : Len(r) = k - 1}, x \in S}

\* What c.request on a page can end in: an error, or a status below 400
\* whose body is null or an array of at most PageLimit hits.
PageOutcomes ==
    { [kind |-> "error", hits |-> <<>>], [kind |-> "null", hits |-> <<>>] }
    \cup { [kind |-> "array", hits |-> h] : h \in SeqsUpTo(Hits, PageLimit) }

\* The element type of the slice, zero valued.
ZeroElem == [uid |-> "", folderUid |-> ""]

Has(obj, key) == \E kv \in obj : kv[1] = key
Get(obj, key) == (CHOOSE kv \in obj : kv[1] = key)[2]

\* json.Unmarshal of a JSON object into a struct value: the fields named in
\* the object are set, the others keep the value they have.
Unmarshal_Object(elem, obj) ==
    [uid       |-> IF Has(obj, "uid") THEN Get(obj, "uid") ELSE elem.uid,
     folderUid |-> IF Has(obj, "folderUid") THEN Get(obj, "folderUid")
                   ELSE elem.folderUid]

\* A slice: its length and the elements of its backing array (mem; the
\* capacity is Len(mem)).
NilSlice == [len |-> 0, mem |-> <<>>]

\* json.Unmarshal of a page body into the slice v (line 228): null makes v
\* nil; an empty array makes v a new empty slice; otherwise element i is
\* decoded into the i-th element of the backing array as it is, which is
\* grown when it is too short, and v is cut to the number of elements read.
Unmarshal_Slice(v, o) ==
    IF o.kind = "null" \/ Len(o.hits) = 0 THEN NilSlice
    ELSE LET m == Len(o.hits)
             cap == IF m > Len(v.mem) THEN m ELSE Len(v.mem)
         IN  [len |-> m,
              mem |-> [i \in 1..cap |->
                         IF i <= m
                         THEN Unmarshal_Object(IF i <= Len(v.mem) THEN v.mem[i]
                                               ELSE ZeroElem, o.hits[i])
                         ELSE v.mem[i]]]

\* The elements of a slice.
Elems(v) == SubSeq(v.mem, 1, v.len)

\* Line 137.
Dashboards_LastPage(length) == length < PageLimit

IdleDash == [pc |-> "idle", page |-> 0, newDashboards |-> NilSlice,
             dashboards |-> <<>>, query |-> {}, requested |-> <<>>,
             fetched |-> <<>>, result |-> <<>>, err |-> "nil"]

InitDash ==
    /\ gfLog = FALSE
    /\ config = [NumRetries |-> 0]
    /\ Idle
    /\ phase = 0
    /\ tape = <<>>
    /\ first = NoFirst
    /\ NoClients
    /\ dash = IdleDash

\* Lines 115-125.
Dashboards_Start ==
    /\ dash.pc \in {"idle", "done"}
    /\ dash' = [IdleDash EXCEPT
                   !.pc = "loop",
                   !.query = {<<"type", <<"dash-db">>>>,
                              <<"limit", FormatInt(PageLimit)>>}]
    /\ UNCHANGED <<evars, cvars, phase, tape, first>>

\* Lines 128-131, up to the call of c.request: the next page is asked for.
Dashboards_Request ==
    /\ dash.pc = "loop"
    /\ LET page == dash.page + 1
           query == {kv \in dash.query : kv[1] # "page"}
                       \cup {<<"page", FormatInt(page)>>}
       IN  dash' = [dash EXCEPT !.pc = "waiting",
                                !.page = page,
                                !.query = query,
                                !.requested = Append(@, query)]
    /\ UNCHANGED <<evars, cvars, phase, tape, first>>

\* Lines 131-139: c.request returns. The server answers page MaxPages, at
\* the latest, with a short page or an error.
Dashboards_Response ==
    /\ dash.pc = "waiting"
    /\ \E o \in PageOutcomes :
        /\ dash.page >= MaxPages => (o.kind = "error" \/ Len(o.hits) < PageLimit)
        /\ LET v == Unmarshal_Slice(dash.newDashboards, o)
               all == dash.dashboards \o Elems(v)
               d == [dash EXCEPT !.fetched = Append(@, o)]
           IN  IF o.kind = "error"
               THEN dash' = [d EXCEPT !.pc = "done", !.result = <<>>,
                                      !.err = "error"]
               ELSE IF Dashboards_LastPage(v.len)
               THEN dash' = [d EXCEPT !.pc = "done", !.newDashboards = v,
                                      !.dashboards = all, !.result = all]
               ELSE dash' = [d EXCEPT !.pc = "loop", !.newDashboards = v,
                                      !.dashboards = all]
    /\ UNCHANGED <<evars, cvars, phase, tape, first>>

NextDash ==
    \/ Dashboards_Start
    \/ Dashboards_Request
    \/ Dashboards_Response

SpecDash == InitDash /\ [][NextDash]_vars

----------------------------------------------------------------------------
(* Properties of the clients and of the requests built from them.         *)

Built(p) == calls[p].pc \in {"sent", "done"}

Carries(r, name, value) ==
    /\ name \in DOMAIN r.Header
    /\ \E j \in 1..Len(r.Header[name]) : r.Header[name][j] = value

\* C12: WithOrgID(id) returns a Client whose OrgID is id and whose
\* transport, base URL and other Config fields are the original's; every
\* Client, the original included, stays as it was created whatever
\* WithOrgID calls follow; and a request built from a Client carries the
\* organization that Client was created with, or none when that is 0.
C12_WithOrgIDLeavesOriginalUnchanged ==
    /\ \A d \in 1..Len(clients) :
          derived[d].parent # 0 =>
             LET o == created[derived[d].parent]
                 c == clients[d]
             IN  /\ c.config.OrgID = derived[d].orgID
                 /\ c.client = o.client
                 /\ c.baseURL = o.baseURL
                 /\ c.config.APIKey = o.config.APIKey
                 /\ c.config.BasicAuth = o.config.BasicAuth
                 /\ c.config.HTTPHeaders = o.config.HTTPHeaders
                 /\ c.config.Client = o.config.Client
                 /\ c.config.NumRetries = o.config.NumRetries
    /\ \A i \in 1..Len(clients) : clients[i] = created[i]
    /\ \A p \in Calls :
          Built(p) =>
             LET org == created[calls[p].c].config.OrgID
             IN  /\ org = 12 => Carries(calls[p].last, "X-Grafana-Org-Id", <<"1", "2">>)
                 /\ org = 7 => Carries(calls[p].last, "X-Grafana-Org-Id", <<"7">>)
                 /\ \A v \in {<<"0">>, <<"7">>, <<"1", "2">>, <<"-", "3">>} :
                       Carries(calls[p].last, "X-Grafana-Org-Id", v)
                          => org # 0 /\ v = FormatInt(org)

\* A client with organization -3 gave a client with organization 7, which
\* gave a client with organization 0; after both WithOrgID calls a request
\* was built from the original and one from the last client.
C12_Witness ==
    /\ Len(clients) = 3
    /\ created[1].config.OrgID = -3
    /\ derived[2] = [parent |-> 1, orgID |-> 7]
    /\ derived[3] = [parent |-> 2, orgID |-> 0]
    /\ calls[1].c = 1 /\ calls[1].pc = "done" /\ calls[1].made = 3
    /\ calls[1].last.Header["X-Grafana-Org-Id"] = <<<<"-", "3">>>>
    /\ calls[2].c = 3 /\ calls[2].pc = "done"
    /\ "X-Grafana-Org-Id" \notin DOMAIN calls[2].last.Header

\* C13: the request of every attempt carries Content-Type application/json;
\* carries Authorization "Bearer <APIKey>" exactly when APIKey is not empty;
\* carries X-Grafana-Org-Id with OrgID in base 10 exactly when OrgID is not
\* 0; carries every custom header of the configuration; and the request of
\* a retry has the method, URL and headers of the first attempt's.
C13_HeadersOnEveryAttempt ==
    \A p \in Calls :
       Built(p) =>
          LET r == calls[p].last
              cfg == clients[calls[p].c].config
          IN  /\ Carries(r, "Content-Type", <<"application/json">>)
              /\ Carries(r, "Authorization", <<"Bearer", " ">> \o cfg.APIKey)
                    <=> cfg.APIKey # <<>>
              /\ (\E v \in {<<"0">>, <<"7">>, <<"1", "2">>, <<"-", "3">>} :
                     Carries(r, "X-Grafana-Org-Id", v)) <=> cfg.OrgID # 0
              /\ cfg.OrgID = 12 => Carries(r, "X-Grafana-Org-Id", <<"1", "2">>)
              /\ cfg.OrgID = -3 => Carries(r, "X-Grafana-Org-Id", <<"-", "3">>)
              /\ cfg.OrgID = 7 => Carries(r, "X-Grafana-Org-Id", <<"7">>)
              /\ \A kv \in cfg.HTTPHeaders :
                    Carries(r, CanonicalMIMEHeaderKey(kv[1]), kv[2])
              /\ r.Method = calls[p].in.method
              /\ r = calls[p].first

\* C14: the joined path of a request: base /api and call path
\* /dashboards/db/x, each with or without a leading or trailing slash, give
\* /api/dashboards/db/x; the joined path is always the base path's segments
\* followed by the call path's segments, one separator between segments.
C14_JoinKeepsBaseThenCallSegments ==
    \A p \in Calls :
       Built(p) =>
          LET base == calls[p].before.baseURL.Path
              cp == calls[p].in.requestPath
              got == calls[p].url.Path
          IN  /\ (Segments(base) = <<"api">> /\ Segments(cp) = <<"dashboards", "db", "x">>)
                    => got = <<"/", "api", "/", "dashboards", "/", "db", "/", "x">>
              /\ Segments(got) = Segments(base) \o Segments(cp)
              /\ got \in {JoinSegs(Segments(got)), <<"/">> \o JoinSegs(Segments(got))}

\* C15: no call changes a Client: every Client is as it was created, and,
\* whatever other calls run at the same time, every request of a call is a
\* request newRequest builds from the Client as it was when the call began
\* and from the call's own arguments.
C15_NoCallMutatesTheClient ==
    /\ \A i \in 1..Len(clients) :
          /\ clients[i].baseURL = created[i].baseURL
          /\ clients[i].config = created[i].config
    /\ \A p \in Calls :
          Built(p) =>
             /\ clients[calls[p].c] = calls[p].before
             /\ \E order \in HTTPHeaders_Range(calls[p].before.config.HTTPHeaders) :
                   calls[p].last =
                      MkRequest(calls[p].in.method,
                                newRequest_URL(calls[p].before.baseURL,
                                               calls[p].in.requestPath,
                                               calls[p].in.query),
                                calls[p].before.config, order)

\* Two calls run on one client with base path /api: one has sent its retry
\* for /api/dashboards/db/x, the other has copied the base URL.
C15_Witness ==
    /\ calls[1].c = 1 /\ calls[2].c = 1
    /\ clients[1].baseURL.Path = <<"/", "api">>
    /\ calls[1].pc = "sent" /\ calls[1].n = 1
    /\ calls[1].last.URL =
          <<"http", ":", "//", "h", "/", "api", "/", "dashboards", "/", "db", "/", "x">>
    /\ calls[2].pc = "copied"
    /\ calls[2].url.Path = <<"/", "api">>

\* The class of an outcome: success, an error derived from the final
\* response, the last transport or read failure, or something else.
Class(o) ==
    CASE o.kind = "ok" -> "success"
      [] o.kind \in {"APIError", "Errorf"} -> "response error"
      [] o.kind = "err" /\ o.err.kind \in {"net", "policy", "read"} -> "failure"
      [] o.kind = "err" /\ o.err.kind = "construct" -> "construct"
      [] o.kind = "err" -> "decode"
      [] OTHER -> o.kind

\* C16: with the same configuration, the same body bytes and the same
\* per-attempt outcomes, Request sends as many requests and takes as many
\* delays as request did, and ends in the same class of outcome.
C16_SameExecutor ==
    (phase = 2 /\ pc = "done") =>
        /\ sends = first.sends
        /\ delays = first.delays
        /\ Class(outcome) = Class(first.outcome)

\* A hit decoded on its own, into a zero value.
Decoded(obj) == Unmarshal_Object(ZeroElem, obj)

RECURSIVE Concatenated(_)
Concatenated(pages) ==
    IF pages = <<>> THEN <<>>
    ELSE [i \in 1..Len(Head(pages).hits) |-> Decoded(Head(pages).hits[i])]
            \o Concatenated(Tail(pages))

PageDigits == <<<<"1">>, <<"2">>, <<"3">>, <<"4">>>>

\* C19: Dashboards requests pages 1, 2, 3, ... in order, none skipped or
\* repeated; goes on exactly while the pages are full and stops at the
\* first short page or error; returns the hits of all fetched pages in page
\* order, each as the server sent it; and returns no dashboards with the
\* error when a page request fails.
C19_DashboardsReturnsAllPages ==
    /\ \A j \in 1..Len(dash.requested) :
          dash.requested[j] = {<<"type", <<"dash-db">>>>, <<"limit", FormatInt(PageLimit)>>,
                               <<"page", PageDigits[j]>>}
    /\ \A j \in 1..(Len(dash.fetched) - 1) :
          dash.fetched[j].kind = "array" /\ Len(dash.fetched[j].hits) >= PageLimit
    /\ Len(dash.requested) =
          Len(dash.fetched) + (IF dash.pc = "waiting" THEN 1 ELSE 0)
    /\ dash.pc \in {"loop", "waiting"} /\ dash.fetched # <<>> =>
          Len(dash.fetched[Len(dash.fetched)].hits) >= PageLimit
    /\ dash.pc = "done" =>
          LET last == dash.fetched[Len(dash.fetched)]
          IN  /\ last.kind = "error" \/ Len(last.hits) < PageLimit
              /\ last.kind = "error" => dash.result = <<>> /\ dash.err = "error"
              /\ last.kind # "error" =>
                    /\ dash.err = "nil"
                    /\ dash.result = Concatenated(dash.fetched)

====
